---------------------------- MODULE Spec2Model ----------------------------
(***************************************************************************)
(* A model of the duplicate-query finder (main.go).                        *)
(*                                                                         *)
(* A Go string is a sequence of one-character strings.  The regular        *)
(* expressions of normalizeQuery and findSQLQueries are written out as the *)
(* leftmost-first, non-overlapping scans that regexp.ReplaceAllString and  *)
(* regexp.FindAllString perform.  processFiles is a set of goroutines      *)
(* (main, the workers, the closer) that step one channel or WaitGroup      *)
(* operation at a time.                                                    *)
(***************************************************************************)
EXTENDS Integers, Sequences, FiniteSets, TLC

(***************************************************************************)
(* Characters and strings                                                  *)
(***************************************************************************)

\* The characters of the model in ascending byte order (Go compares strings
\* bytewise).
AsciiOrder ==
    << "\n", " ", "\"", "'", "(", ")", ",", "1", "2", ";", "=",
       "A", "N", "S",
       "a", "b", "c", "d", "e", "f", "g", "h", "i", "j", "k", "l", "m",
       "n", "o", "p", "q", "r", "s", "t", "u", "v", "w", "x", "y", "z" >>

Code(c) == CHOOSE i \in 1..Len(AsciiOrder) : AsciiOrder[i] = c

\* keys[i] < keys[j] on Go strings.
RECURSIVE StrLessFrom(_, _, _)
StrLessFrom(a, b, i) ==
    IF i > Len(b) THEN FALSE
    ELSE IF i > Len(a) THEN TRUE
    ELSE IF a[i] = b[i] THEN StrLessFrom(a, b, i + 1)
    ELSE Code(a[i]) < Code(b[i])

StrLess(a, b) == StrLessFrom(a, b, 1)

\* regexp \s is [\t\n\f\r ]; strings.TrimSpace trims the same characters
\* among those of the model.
IsSpace(c) == c \in {" ", "\n", "\t", "\r", "\f"}

\* regexp \d
IsDigit(c) == c \in {"0", "1", "2", "3", "4", "5", "6", "7", "8", "9"}

UpperLetters ==
    << "A", "B", "C", "D", "E", "F", "G", "H", "I", "J", "K", "L", "M",
       "N", "O", "P", "Q", "R", "S", "T", "U", "V", "W", "X", "Y", "Z" >>

LowerLetters ==
    << "a", "b", "c", "d", "e", "f", "g", "h", "i", "j", "k", "l", "m",
       "n", "o", "p", "q", "r", "s", "t", "u", "v", "w", "x", "y", "z" >>

IsUpper(c) == \E i \in 1..26 : UpperLetters[i] = c
IsLower(c) == \E i \in 1..26 : LowerLetters[i] = c

\* regexp \w is [0-9A-Za-z_]
IsWord(c) == IsUpper(c) \/ IsLower(c) \/ IsDigit(c) \/ c = "_"

LowerChar(c) ==
    IF IsUpper(c)
    THEN LowerLetters[CHOOSE i \in 1..26 : UpperLetters[i] = c]
    ELSE c

UpperChar(c) ==
    IF IsLower(c)
    THEN UpperLetters[CHOOSE i \in 1..26 : LowerLetters[i] = c]
    ELSE c

\* strings.ToLower, strings.ToUpper
ToLower(s) == [i \in 1..Len(s) |-> LowerChar(s[i])]
ToUpper(s) == [i \in 1..Len(s) |-> UpperChar(s[i])]

\* The first index >= i of s that holds no whitespace (Len(s) + 1 if none).
RECURSIVE SkipSpace(_, _)
SkipSpace(s, i) ==
    IF i <= Len(s) /\ IsSpace(s[i]) THEN SkipSpace(s, i + 1) ELSE i

\* The last index <= i of s that holds no whitespace (0 if none).
RECURSIVE SkipSpaceBack(_, _)
SkipSpaceBack(s, i) ==
    IF i >= 1 /\ IsSpace(s[i]) THEN SkipSpaceBack(s, i - 1) ELSE i

\* strings.TrimSpace
TrimSpace(s) == SubSeq(s, SkipSpace(s, 1), SkipSpaceBack(s, Len(s)))

\* strings.HasSuffix(s, ";")
HasSuffixSemi(s) == Len(s) >= 1 /\ s[Len(s)] = ";"

\* Whether w stands in s at index i.
HasAt(s, i, w) ==
    /\ i >= 1
    /\ i + Len(w) - 1 <= Len(s)
    /\ \A k \in 1..Len(w) : s[i + k - 1] = w[k]

\* strings.Contains
Contains(s, w) == \E i \in 1..(Len(s) - Len(w) + 1) : HasAt(s, i, w)

(***************************************************************************)
(* normalizeQuery                                                          *)
(***************************************************************************)

\* ReplaceAllString of `\s+` (and of `[\s\n\r\t]+`, the same class) by " ".
RECURSIVE CollapseFrom(_, _)
CollapseFrom(s, i) ==
    IF i > Len(s) THEN << >>
    ELSE IF IsSpace(s[i]) THEN << " " >> \o CollapseFrom(s, SkipSpace(s, i))
    ELSE << s[i] >> \o CollapseFrom(s, i + 1)

CollapseSpace(s) == CollapseFrom(s, 1)

\* ReplaceAllString of `\s*c\s*` by rep: the leftmost match at a whitespace
\* run is the whole run and the c after it, with the whitespace that follows.
RECURSIVE AroundFrom(_, _, _, _)
AroundFrom(s, i, c, rep) ==
    IF i > Len(s) THEN << >>
    ELSE LET j == SkipSpace(s, i)
         IN  IF j <= Len(s) /\ s[j] = c
             THEN rep \o AroundFrom(s, SkipSpace(s, j + 1), c, rep)
             ELSE << s[i] >> \o AroundFrom(s, i + 1, c, rep)

ReplaceAround(s, c, rep) == AroundFrom(s, 1, c, rep)

\* The first index >= i of s that holds no digit.
RECURSIVE SkipDigits(_, _)
SkipDigits(s, i) ==
    IF i <= Len(s) /\ IsDigit(s[i]) THEN SkipDigits(s, i + 1) ELSE i

\* ReplaceAllString of `\d+` by "N".
RECURSIVE DigitsFrom(_, _)
DigitsFrom(s, i) ==
    IF i > Len(s) THEN << >>
    ELSE IF IsDigit(s[i]) THEN << "N" >> \o DigitsFrom(s, SkipDigits(s, i))
    ELSE << s[i] >> \o DigitsFrom(s, i + 1)

ReplaceDigits(s) == DigitsFrom(s, 1)

\* The first index >= i of s that holds q (Len(s) + 1 if none).
RECURSIVE FindChar(_, _, _)
FindChar(s, i, q) ==
    IF i <= Len(s) /\ s[i] # q THEN FindChar(s, i + 1, q) ELSE i

\* ReplaceAllString of `q[^q]*q` by "S", q a quote character.
RECURSIVE QuotedFrom(_, _, _)
QuotedFrom(s, i, q) ==
    IF i > Len(s) THEN << >>
    ELSE IF s[i] = q /\ FindChar(s, i + 1, q) <= Len(s)
         THEN << "S" >> \o QuotedFrom(s, FindChar(s, i + 1, q) + 1, q)
         ELSE << s[i] >> \o QuotedFrom(s, i + 1, q)

ReplaceQuoted(s, q) == QuotedFrom(s, 1, q)

\* The eight entries of replacements, applied in order.
ApplyReplacements(s) ==
    LET r1 == ReplaceAround(s, "=", << " ", "=", " " >>)
        r2 == ReplaceAround(r1, ",", << ",", " " >>)
        r3 == CollapseSpace(r2)
        r4 == ReplaceDigits(r3)
        r5 == ReplaceQuoted(r4, "'")
        r6 == ReplaceQuoted(r5, "\"")
        r7 == ReplaceAround(r6, "(", << " ", "(", " " >>)
    IN  ReplaceAround(r7, ")", << " ", ")", " " >>)

\* normalizeQuery without strings.ToLower.
normalizeQueryKeepCase(query) ==
    ApplyReplacements(TrimSpace(CollapseSpace(query)))

normalizeQuery(query) ==
    ApplyReplacements(ToLower(TrimSpace(CollapseSpace(query))))

(***************************************************************************)
(* findSQLQueries                                                          *)
(***************************************************************************)

KwSelect   == << "S", "E", "L", "E", "C", "T" >>
KwInsert   == << "I", "N", "S", "E", "R", "T" >>
KwInto     == << "I", "N", "T", "O" >>
KwUpdate   == << "U", "P", "D", "A", "T", "E" >>
KwSet      == << "S", "E", "T" >>
KwDelete   == << "D", "E", "L", "E", "T", "E" >>
KwFrom     == << "F", "R", "O", "M" >>
KwCreate   == << "C", "R", "E", "A", "T", "E" >>
KwTable    == << "T", "A", "B", "L", "E" >>
KwDatabase == << "D", "A", "T", "A", "B", "A", "S", "E" >>
KwIndex    == << "I", "N", "D", "E", "X" >>
KwAlter    == << "A", "L", "T", "E", "R" >>
KwDrop     == << "D", "R", "O", "P" >>
KwTruncate == << "T", "R", "U", "N", "C", "A", "T", "E" >>

\* Whether keyword w stands in s at index i, under (?i).
HasAtCI(s, i, w) ==
    /\ i >= 1
    /\ i + Len(w) - 1 <= Len(s)
    /\ \A k \in 1..Len(w) : UpperChar(s[i + k - 1]) = w[k]

\* Each piece of an anchor takes the index it starts at and gives the index
\* after it, or 0 when it does not match (0 is passed on).
Kw(s, i, w) == IF i >= 1 /\ HasAtCI(s, i, w) THEN i + Len(w) ELSE 0

\* `\s+`
Ws(s, i) ==
    IF i >= 1 /\ i <= Len(s) /\ IsSpace(s[i]) THEN SkipSpace(s, i) ELSE 0

RECURSIVE SkipWord(_, _)
SkipWord(s, i) ==
    IF i <= Len(s) /\ IsWord(s[i]) THEN SkipWord(s, i + 1) ELSE i

\* `\w+`
Word(s, i) ==
    IF i >= 1 /\ i <= Len(s) /\ IsWord(s[i]) THEN SkipWord(s, i) ELSE 0

\* (?:A|B|C) of keywords: the first that matches.
KwAny(s, i, ws) ==
    IF \E k \in 1..Len(ws) : Kw(s, i, ws[k]) # 0
    THEN Kw(s, i, ws[CHOOSE k \in 1..Len(ws) :
                       /\ Kw(s, i, ws[k]) # 0
                       /\ \A m \in 1..(k - 1) : Kw(s, i, ws[m]) = 0])
    ELSE 0

\* LazyEnd with a greedy `[\s\S]+`: it runs to the end of the text.
LazyEndGreedy(s, k) == Len(s)

\* `[\s\S]+?(?:;|$)` once the characters up to index k are taken (k is at
\* least the first index of the lazy run): the index the match ends at.
RECURSIVE LazyEnd(_, _)
LazyEnd(s, k) ==
    IF k >= Len(s) THEN Len(s)
    ELSE IF s[k + 1] = ";" THEN k + 1
    ELSE LazyEnd(s, k + 1)

\* `[\s\S]+?(?:FROM[\s\S]+?)?(?:;|$)` once the characters up to index k are
\* taken: the optional group is tried first, then `;` or the end of the text,
\* then one more character.
RECURSIVE SelectEnd(_, _)
SelectEnd(s, k) ==
    IF HasAtCI(s, k + 1, KwFrom) /\ k + 5 <= Len(s) THEN LazyEnd(s, k + 5)
    ELSE IF k >= Len(s) THEN Len(s)
    ELSE IF s[k + 1] = ";" THEN k + 1
    ELSE SelectEnd(s, k + 1)

\* The SELECT alternative at index i: the index its match ends at, or 0.
\* `\s+` is greedy: it gives one character back only when the text ends in
\* the whitespace.
SelectAlt(s, i) ==
    LET p == Kw(s, i, KwSelect)
        b == Ws(s, p)
    IN  IF b = 0 THEN 0
        ELSE IF b <= Len(s) THEN SelectEnd(s, b)
        ELSE IF b - p >= 2 THEN Len(s)
        ELSE 0

\* The index after the anchor of the n-th of the other alternatives, or 0.
AnchorEnd(s, i, n) ==
    CASE n = 2 -> Kw(s, Ws(s, Kw(s, i, KwInsert)), KwInto)
      [] n = 3 -> Kw(s, Ws(s, Word(s, Ws(s, Kw(s, i, KwUpdate)))), KwSet)
      [] n = 4 -> Kw(s, Ws(s, Kw(s, i, KwDelete)), KwFrom)
      [] n = 5 -> KwAny(s, Ws(s, Kw(s, i, KwCreate)),
                        << KwTable, KwDatabase, KwIndex >>)
      [] n = 6 -> Kw(s, Ws(s, Kw(s, i, KwAlter)), KwTable)
      [] n = 7 -> KwAny(s, Ws(s, Kw(s, i, KwDrop)), << KwTable, KwDatabase >>)
      [] n = 8 -> Kw(s, Ws(s, Kw(s, i, KwTruncate)), KwTable)

\* The n-th alternative at index i, with `[\s\S]+?(?:;|$)` after its anchor:
\* the index the match ends at, or 0.
AltEnd(s, i, n) ==
    IF n = 1 THEN SelectAlt(s, i)
    ELSE LET a == AnchorEnd(s, i, n)
         IN  IF a >= 1 /\ a <= Len(s) THEN LazyEnd(s, a) ELSE 0

\* The pattern at index i: the first alternative that matches.
MatchEnd(s, i) ==
    IF \E n \in 1..8 : AltEnd(s, i, n) # 0
    THEN AltEnd(s, i, CHOOSE n \in 1..8 :
                        /\ AltEnd(s, i, n) # 0
                        /\ \A m \in 1..(n - 1) : AltEnd(s, i, m) = 0)
    ELSE 0

\* re.FindAllString(text, -1): the leftmost match, then the leftmost after it.
RECURSIVE FindAllFrom(_, _)
FindAllFrom(s, i) ==
    IF i > Len(s) THEN << >>
    ELSE LET e == MatchEnd(s, i)
         IN  IF e # 0 THEN << SubSeq(s, i, e) >> \o FindAllFrom(s, e + 1)
             ELSE FindAllFrom(s, i + 1)

FindAllString(text) == FindAllFrom(text, 1)

\* LooksLikeSQL without the check of the suffix and of the three verbs.
LooksLikeSQLNoCheck(cleaned) == Len(cleaned) > 0

\* The validation of one trimmed match.
LooksLikeSQL(cleaned) ==
    /\ Len(cleaned) > 0
    /\ \/ HasSuffixSemi(cleaned)
       \/ Contains(ToUpper(cleaned), KwSelect)
       \/ Contains(ToUpper(cleaned), KwInsert)
       \/ Contains(ToUpper(cleaned), KwUpdate)

RECURSIVE CleanAndValidate(_, _)
CleanAndValidate(matches, i) ==
    IF i > Len(matches) THEN << >>
    ELSE LET cleaned == TrimSpace(matches[i])
         IN  (IF LooksLikeSQL(cleaned) THEN << cleaned >> ELSE << >>)
                 \o CleanAndValidate(matches, i + 1)

findSQLQueries(text) == CleanAndValidate(FindAllString(text), 1)

(***************************************************************************)
(* The state of one run                                                    *)
(***************************************************************************)

VARIABLES
    files,          \* the paths findFiles returned, in walk order
    readable,       \* path -> whether os.ReadFile succeeds on it
    content,        \* path -> the text of the file
    parsed,         \* path -> what analyzeFile makes of that text
    numWorkers,     \* config.NumWorkers
    pc,             \* where main is
    started,        \* i of the loop that starts the workers
    next,           \* index of the next file the job loop sends
    jobs,           \* the jobs channel's buffer
    jobsClosed,
    results,        \* the results channel's buffer
    resultsClosed,
    wg,             \* the WaitGroup's counter
    wpc,            \* worker -> where it is
    wpath,          \* worker -> the path it took from jobs
    wres,           \* worker -> the batch analyzeFile gave it
    closer,         \* where the goroutine of wg.Wait / close(results) is
    closes,         \* how many times close(results) ran
    panicked,       \* a send on, or a close of, a closed channel happened
    allQueries,     \* processFiles' allQueries, then main's queries
    duplicates,     \* main's duplicates
    output,         \* the lines printed to standard output
    stmt,           \* the statement a generated file text is made of
    shape,          \* how the text is made of it
    rawToks,        \* a raw statement, as its lexical tokens
    varToks,        \* a second raw statement, a variation of the first
    kind,           \* what the variation changed
    nphase,         \* where the canonicalisation of the two is
    normRaw,        \* normalizeQuery of the first
    normVar,        \* normalizeQuery of the second
    normTwice       \* normalizeQuery of normRaw

runVars ==
    << files, readable, content, parsed, numWorkers, pc, started, next, jobs,
       jobsClosed, results, resultsClosed, wg, wpc, wpath, wres, closer,
       closes, panicked, allQueries, duplicates, output, stmt, shape >>

normVars == << rawToks, varToks, kind, nphase, normRaw, normVar, normTwice >>

vars == << runVars, normVars >>

(***************************************************************************)
(* Bounds                                                                  *)
(***************************************************************************)

MaxFiles == 2
MaxWorkers == 2
MaxOccurrences == 7
MaxStmtTokens == 3
MaxNormTokens == 3

Workers == 1..MaxWorkers

\* All sequences over S of length at most n.
RECURSIVE SeqsUpTo(_, _)
SeqsUpTo(S, n) ==
    IF n = 0 THEN { << >> }
    ELSE LET shorter == SeqsUpTo(S, n - 1)
         IN  shorter \cup { Append(q, x) : q \in shorter, x \in S }

\* The concatenation of a sequence of strings.
RECURSIVE Flatten(_)
Flatten(ss) == IF ss = << >> THEN << >> ELSE Head(ss) \o Flatten(Tail(ss))

\* The orders a Go map of these keys may be iterated in.
Perms(S) ==
    { q \in [1..Cardinality(S) -> S] : \A i, j \in DOMAIN q : i # j => q[i] # q[j] }

(***************************************************************************)
(* analyzeFile, findDuplicates, printResults                               *)
(***************************************************************************)

RECURSIVE MakeResults(_, _, _)
MakeResults(path, matches, i) ==
    IF i > Len(matches) THEN << >>
    ELSE << [FilePath |-> path, Query |-> matches[i],
             Normalized |-> normalizeQuery(matches[i])] >>
             \o MakeResults(path, matches, i + 1)

\* What analyzeFile computes from the text of path once it is read.  It is a
\* function of the text alone, so it is tabulated in parsed when the texts
\* are chosen.
Parse(path, text) == MakeResults(path, findSQLQueries(text), 1)

\* analyzeFile(path): err and the batch.
analyzeFile(path) ==
    IF ~readable[path] THEN [err |-> TRUE, res |-> << >>]
    ELSE [err |-> FALSE, res |-> parsed[path]]

\* duplicates[query.Normalized] = append(duplicates[query.Normalized], query)
AppendTo(m, query) ==
    LET key == query.Normalized
    IN  [k \in DOMAIN m \cup {key} |->
            IF k = key
            THEN (IF key \in DOMAIN m THEN Append(m[key], query) ELSE << query >>)
            ELSE m[k]]

RECURSIVE GroupFrom(_, _, _)
GroupFrom(queries, i, m) ==
    IF i > Len(queries) THEN m
    ELSE GroupFrom(queries, i + 1, AppendTo(m, queries[i]))

\* The first loop of findDuplicates.
GroupByNormalized(queries) == GroupFrom(queries, 1, << >>)

\* Deleted with the bound off by one.
DeletedUpToTwo(value) == Len(value) <= 2

\* The second loop of findDuplicates: whether the key is deleted.
Deleted(value) == Len(value) = 1

findDuplicates(queries) ==
    LET m == GroupByNormalized(queries)
    IN  [k \in { x \in DOMAIN m : ~Deleted(m[x]) } |-> m[k]]

\* Less without the comparison of the keys.
LessByCountOnly(dups, ki, kj) == Len(dups[ki]) > Len(dups[kj])

\* The less function printResults hands to sort.Slice, on two keys.
Less(dups, ki, kj) ==
    IF Len(dups[ki]) # Len(dups[kj])
    THEN Len(dups[ki]) > Len(dups[kj])
    ELSE StrLess(ki, kj)

Swap(keys, i, j) == [keys EXCEPT ![i] = keys[j], ![j] = keys[i]]

\* sort.Slice on at most 12 elements is this insertion sort: the inner loop.
RECURSIVE SinkDown(_, _, _)
SinkDown(dups, keys, j) ==
    IF j > 1 /\ Less(dups, keys[j], keys[j - 1])
    THEN SinkDown(dups, Swap(keys, j, j - 1), j - 1)
    ELSE keys

RECURSIVE InsertionSortFrom(_, _, _)
InsertionSortFrom(dups, keys, i) ==
    IF i > Len(keys) THEN keys
    ELSE InsertionSortFrom(dups, SinkDown(dups, keys, i), i + 1)

SortSlice(dups, keys) == InsertionSortFrom(dups, keys, 2)

NoDuplicatesLine == << "No duplicate queries found" >>
FoundLine(n) == << "Found %d duplicate queries", n >>
CountLine(n, k) == << "Count: %d -- Normalized Query:\t %s", n, k >>

\* printResults, the map being iterated in the order keys.
printResults(dups, keys) ==
    IF Cardinality(DOMAIN dups) = 0 THEN << NoDuplicatesLine >>
    ELSE LET sorted == SortSlice(dups, keys)
         IN  << FoundLine(Cardinality(DOMAIN dups)) >>
                 \o [i \in 1..Len(sorted) |->
                        CountLine(Len(dups[sorted[i]]), sorted[i])]

(***************************************************************************)
(* processFiles and main                                                   *)
(***************************************************************************)

\* Channels that hold a single element, whatever the number of files.
ChanCapOne == IF Len(files) > 1 THEN 1 ELSE Len(files)

\* make(chan ..., len(files)), for jobs and for results.
ChanCap == Len(files)

\* for i := 0; i < config.NumWorkers; i++ { wg.Add(1); go worker(...) }
StartWorker ==
    /\ ~panicked
    /\ pc = "spawn"
    /\ started < numWorkers
    /\ wg' = wg + 1
    /\ wpc' = [wpc EXCEPT ![started + 1] = "range"]
    /\ started' = started + 1
    /\ UNCHANGED << files, readable, content, parsed, numWorkers, pc, next, jobs,
                    jobsClosed, results, resultsClosed, wpath, wres, closer,
                    closes, panicked, allQueries, duplicates, output, stmt,
                    shape, normVars >>

EndSpawn ==
    /\ ~panicked
    /\ pc = "spawn"
    /\ ~(started < numWorkers)
    /\ pc' = "send"
    /\ UNCHANGED << files, readable, content, parsed, numWorkers, started, next, jobs,
                    jobsClosed, results, resultsClosed, wg, wpc, wpath, wres,
                    closer, closes, panicked, allQueries, duplicates, output,
                    stmt, shape, normVars >>

\* jobs <- file
SendJob ==
    /\ ~panicked
    /\ pc = "send"
    /\ next <= Len(files)
    /\ Len(jobs) < ChanCap
    /\ jobs' = Append(jobs, files[next])
    /\ next' = next + 1
    /\ UNCHANGED << files, readable, content, parsed, numWorkers, pc, started,
                    jobsClosed, results, resultsClosed, wg, wpc, wpath, wres,
                    closer, closes, panicked, allQueries, duplicates, output,
                    stmt, shape, normVars >>

\* close(jobs)
CloseJobs ==
    /\ ~panicked
    /\ pc = "send"
    /\ next > Len(files)
    /\ jobsClosed' = TRUE
    /\ pc' = "go"
    /\ UNCHANGED << files, readable, content, parsed, numWorkers, started, next, jobs,
                    results, resultsClosed, wg, wpc, wpath, wres, closer,
                    closes, panicked, allQueries, duplicates, output, stmt,
                    shape, normVars >>

\* go func() { wg.Wait(); close(results) }()
StartCloser ==
    /\ ~panicked
    /\ pc = "go"
    /\ closer' = "wait"
    /\ pc' = "collect"
    /\ UNCHANGED << files, readable, content, parsed, numWorkers, started, next, jobs,
                    jobsClosed, results, resultsClosed, wg, wpc, wpath, wres,
                    closes, panicked, allQueries, duplicates, output, stmt,
                    shape, normVars >>

\* for result := range results { allQueries = append(allQueries, result...) }
Collect ==
    /\ ~panicked
    /\ pc = "collect"
    /\ results # << >>
    /\ allQueries' = allQueries \o Head(results)
    /\ results' = Tail(results)
    /\ UNCHANGED << files, readable, content, parsed, numWorkers, pc, started, next,
                    jobs, jobsClosed, resultsClosed, wg, wpc, wpath, wres,
                    closer, closes, panicked, duplicates, output, stmt, shape,
                    normVars >>

\* The range over results ends: processFiles returns allQueries.
CollectEnd ==
    /\ ~panicked
    /\ pc = "collect"
    /\ results = << >>
    /\ resultsClosed
    /\ pc' = "findDuplicates"
    /\ UNCHANGED << files, readable, content, parsed, numWorkers, started, next, jobs,
                    jobsClosed, results, resultsClosed, wg, wpc, wpath, wres,
                    closer, closes, panicked, allQueries, duplicates, output,
                    stmt, shape, normVars >>

\* duplicates := findDuplicates(queries)
FindDuplicates ==
    /\ ~panicked
    /\ pc = "findDuplicates"
    /\ duplicates' = findDuplicates(allQueries)
    /\ pc' = "printResults"
    /\ UNCHANGED << files, readable, content, parsed, numWorkers, started, next, jobs,
                    jobsClosed, results, resultsClosed, wg, wpc, wpath, wres,
                    closer, closes, panicked, allQueries, output, stmt, shape,
                    normVars >>

\* printResults(duplicates)
PrintResults ==
    /\ ~panicked
    /\ pc = "printResults"
    /\ \E keys \in Perms(DOMAIN duplicates) :
           output' = output \o printResults(duplicates, keys)
    /\ pc' = "done"
    /\ UNCHANGED << files, readable, content, parsed, numWorkers, started, next, jobs,
                    jobsClosed, results, resultsClosed, wg, wpc, wpath, wres,
                    closer, closes, panicked, allQueries, duplicates, stmt,
                    shape, normVars >>

\* for path := range jobs; when the range ends the worker returns and its
\* deferred wg.Done() runs.
WorkerRange(w) ==
    /\ ~panicked
    /\ wpc[w] = "range"
    /\ \/ /\ jobs # << >>
          /\ wpath' = [wpath EXCEPT ![w] = Head(jobs)]
          /\ jobs' = Tail(jobs)
          /\ wpc' = [wpc EXCEPT ![w] = "analyze"]
          /\ wg' = wg
       \/ /\ jobs = << >>
          /\ jobsClosed
          /\ wg' = wg - 1
          /\ wpc' = [wpc EXCEPT ![w] = "returned"]
          /\ UNCHANGED << jobs, wpath >>
    /\ UNCHANGED << files, readable, content, parsed, numWorkers, pc, started, next,
                    jobsClosed, results, resultsClosed, wres, closer, closes,
                    panicked, allQueries, duplicates, output, stmt, shape,
                    normVars >>

\* if res, err := analyzeFile(path); err == nil
WorkerAnalyze(w) ==
    /\ ~panicked
    /\ wpc[w] = "analyze"
    /\ wres' = [wres EXCEPT ![w] = analyzeFile(wpath[w]).res]
    /\ wpc' = [wpc EXCEPT ![w] =
                  IF analyzeFile(wpath[w]).err THEN "range" ELSE "send"]
    /\ UNCHANGED << files, readable, content, parsed, numWorkers, pc, started, next,
                    jobs, jobsClosed, results, resultsClosed, wg, wpath,
                    closer, closes, panicked, allQueries, duplicates, output,
                    stmt, shape, normVars >>

\* results <- res (a send on a closed channel panics)
WorkerSend(w) ==
    /\ ~panicked
    /\ wpc[w] = "send"
    /\ IF resultsClosed
       THEN /\ panicked' = TRUE
            /\ wpc' = [wpc EXCEPT ![w] = "panic"]
            /\ results' = results
       ELSE /\ Len(results) < ChanCap
            /\ results' = Append(results, wres[w])
            /\ wpc' = [wpc EXCEPT ![w] = "range"]
            /\ panicked' = panicked
    /\ UNCHANGED << files, readable, content, parsed, numWorkers, pc, started, next,
                    jobs, jobsClosed, resultsClosed, wg, wpath, wres, closer,
                    closes, allQueries, duplicates, output, stmt, shape,
                    normVars >>

\* A Wait that does not wait.
WaitReturnsAtOnce == TRUE

\* Whether wg.Wait() returns.
WaitReturns == wg = 0

CloserWait ==
    /\ ~panicked
    /\ closer = "wait"
    /\ WaitReturns
    /\ closer' = "close"
    /\ UNCHANGED << files, readable, content, parsed, numWorkers, pc, started, next,
                    jobs, jobsClosed, results, resultsClosed, wg, wpc, wpath,
                    wres, closes, panicked, allQueries, duplicates, output,
                    stmt, shape, normVars >>

\* close(results) (a close of a closed channel panics)
CloserClose ==
    /\ ~panicked
    /\ closer = "close"
    /\ resultsClosed' = TRUE
    /\ closes' = closes + 1
    /\ panicked' = (panicked \/ resultsClosed)
    /\ closer' = "returned"
    /\ UNCHANGED << files, readable, content, parsed, numWorkers, pc, started, next,
                    jobs, jobsClosed, results, wg, wpc, wpath, wres,
                    allQueries, duplicates, output, stmt, shape, normVars >>

MainStep ==
    \/ StartWorker
    \/ EndSpawn
    \/ SendJob
    \/ CloseJobs
    \/ StartCloser
    \/ Collect
    \/ CollectEnd
    \/ FindDuplicates
    \/ PrintResults

WorkerStep(w) == WorkerRange(w) \/ WorkerAnalyze(w) \/ WorkerSend(w)

CloserStep == CloserWait \/ CloserClose

\* Every action is guarded by ~panicked: a panic ends the process.
Next == MainStep \/ (\E w \in Workers : WorkerStep(w)) \/ CloserStep

(***************************************************************************)
(* Initial states                                                          *)
(***************************************************************************)

NormIdle ==
    /\ rawToks = << >>
    /\ varToks = << >>
    /\ kind = "none"
    /\ nphase = "idle"
    /\ normRaw = << >>
    /\ normVar = << >>
    /\ normTwice = << >>

\* main has parsed the flags and findFiles has returned without error.
ProcessStart ==
    /\ pc = "spawn"
    /\ started = 0
    /\ next = 1
    /\ jobs = << >>
    /\ jobsClosed = FALSE
    /\ results = << >>
    /\ resultsClosed = FALSE
    /\ wg = 0
    /\ wpc = [w \in Workers |-> "none"]
    /\ wpath = [w \in Workers |-> 0]
    /\ wres = [w \in Workers |-> << >>]
    /\ closer = "none"
    /\ closes = 0
    /\ panicked = FALSE
    /\ allQueries = << >>
    /\ duplicates = << >>
    /\ output = << >>

\* The texts a scanned file may hold: "select 1;", "select 2;drop table t;",
\* and a text with no statement.
TextSelect1 == << "s", "e", "l", "e", "c", "t", " ", "1", ";" >>
TextSelect2Drop ==
    << "s", "e", "l", "e", "c", "t", " ", "2", ";",
       "d", "r", "o", "p", " ", "t", "a", "b", "l", "e", " ", "t", ";" >>
TextNone == << "x" >>

FileTexts == { TextSelect1, TextSelect2Drop, TextNone }

NoShape == [copies |-> 0, term |-> << >>, sep |-> << >>]

Init ==
    /\ \E n \in 0..MaxFiles :
          /\ files = [i \in 1..n |-> i]
          /\ readable \in [1..n -> BOOLEAN]
          /\ content \in [1..n -> FileTexts]
          /\ parsed = [f \in 1..n |-> Parse(f, content[f])]
    /\ numWorkers \in 0..MaxWorkers
    /\ ProcessStart
    /\ stmt = << >>
    /\ shape = NoShape
    /\ NormIdle

Spec == Init /\ [][Next]_vars

\* The Go scheduler runs every goroutine that can take a step.
FairSpec ==
    /\ Spec
    /\ WF_vars(MainStep)
    /\ \A w \in Workers : WF_vars(WorkerStep(w))
    /\ WF_vars(CloserStep)

(***************************************************************************)
(* findDuplicates and printResults on every short sequence of occurrences  *)
(***************************************************************************)

QuerySelect1 == TextSelect1
QuerySelect2 == << "s", "e", "l", "e", "c", "t", " ", "2", ";" >>
QuerySelectA == << "s", "e", "l", "e", "c", "t", " ", "a", ";" >>
QueryDrop ==
    << "d", "r", "o", "p", " ", "t", "a", "b", "l", "e", " ", "t", ";" >>

Occurrence(path, query) ==
    [FilePath |-> path, Query |-> query, Normalized |-> normalizeQuery(query)]

\* Two occurrences of one normalized form and one of two others.
Occurrences ==
    { Occurrence(1, QuerySelect1), Occurrence(2, QuerySelect2),
      Occurrence(1, QueryDrop), Occurrence(2, QuerySelectA) }

\* processFiles has returned some sequence of occurrences.
InitAggregate ==
    /\ files = << 1, 2 >>
    /\ readable = << TRUE, TRUE >>
    /\ content = << << >>, << >> >>
    /\ parsed = << << >>, << >> >>
    /\ numWorkers = 0
    /\ pc = "findDuplicates"
    /\ started = 0
    /\ next = 3
    /\ jobs = << >>
    /\ jobsClosed = TRUE
    /\ results = << >>
    /\ resultsClosed = TRUE
    /\ wg = 0
    /\ wpc = [w \in Workers |-> "none"]
    /\ wpath = [w \in Workers |-> 0]
    /\ wres = [w \in Workers |-> << >>]
    /\ closer = "returned"
    /\ closes = 1
    /\ panicked = FALSE
    /\ allQueries \in SeqsUpTo(Occurrences, MaxOccurrences)
    /\ duplicates = << >>
    /\ output = << >>
    /\ stmt = << >>
    /\ shape = NoShape
    /\ NormIdle

NextAggregate == FindDuplicates \/ PrintResults

SpecAggregate == InitAggregate /\ [][NextAggregate]_vars

(***************************************************************************)
(* Properties of findDuplicates and printResults                           *)
(***************************************************************************)

\* The occurrences of queries whose normalized form is k, in their order.
OccurrencesOf(queries, k) ==
    LET Has(q) == q.Normalized = k
    IN  SelectSeq(queries, Has)

NormalizedForms(queries) == { queries[i].Normalized : i \in 1..Len(queries) }

\* C1: findDuplicates returns a mapping whose keys are exactly the normalized
\* forms with at least two occurrences, each mapped to all its occurrences in
\* their order in the input.
C1_DuplicatesAreGroupsOfTwoOrMore ==
    pc \in {"printResults", "done"} =>
        /\ DOMAIN duplicates =
               { k \in NormalizedForms(allQueries) :
                     Len(OccurrencesOf(allQueries, k)) >= 2 }
        /\ \A k \in DOMAIN duplicates :
               duplicates[k] = OccurrencesOf(allQueries, k)

\* A form with one occurrence was dropped, and a kept form has occurrences
\* that were not next to each other in the input.
C1_Witness ==
    /\ pc = "printResults"
    /\ \E k \in NormalizedForms(allQueries) : k \notin DOMAIN duplicates
    /\ \E i, j \in 1..Len(allQueries) :
           /\ i + 1 < j
           /\ allQueries[i] # allQueries[j]
           /\ allQueries[i].Normalized = allQueries[j].Normalized
           /\ allQueries[i + 1].Normalized # allQueries[i].Normalized
           /\ allQueries[i].Normalized \in DOMAIN duplicates

LineCount(line) == line[2]
LineKey(line) == line[3]

\* C2: the report is the count line with the number of groups and one line
\* per group, by descending count and then ascending key, whatever order the
\* map was iterated in; with no group it is the line "No duplicate queries
\* found".
C2_ReportIsSorted ==
    pc = "done" =>
        LET K == Cardinality(DOMAIN duplicates)
        IN  IF K = 0 THEN output = << NoDuplicatesLine >>
            ELSE /\ Len(output) = K + 1
                 /\ output[1] = FoundLine(K)
                 /\ { output[i] : i \in 2..(K + 1) } =
                        { CountLine(Len(duplicates[k]), k) : k \in DOMAIN duplicates }
                 /\ \A i, j \in 2..(K + 1) :
                        i < j =>
                            \/ LineCount(output[i]) > LineCount(output[j])
                            \/ /\ LineCount(output[i]) = LineCount(output[j])
                               /\ StrLess(LineKey(output[i]), LineKey(output[j]))

\* Three groups were printed, two of them of the same size.
C2_Witness ==
    /\ pc = "done"
    /\ Len(output) = 4
    /\ LineCount(output[2]) > LineCount(output[3])
    /\ LineCount(output[3]) = LineCount(output[4])

(***************************************************************************)
(* Properties of processFiles                                              *)
(***************************************************************************)

Returned == pc \in {"findDuplicates", "printResults", "done"}

ReadableFiles == { f \in 1..Len(files) : readable[f] }

\* The batches of the files of order, one after the other.
RECURSIVE Batches(_)
Batches(order) ==
    IF order = << >> THEN << >>
    ELSE analyzeFile(Head(order)).res \o Batches(Tail(order))

NoWorkerRunning == \A w \in Workers : wpc[w] \in {"none", "returned"}

\* C5: when processFiles returns, the merged sequence is the batches of the
\* files that can be read, each once and whole, for every worker count.
C5_MergedIsEveryReadableBatch ==
    Returned =>
        \E order \in Perms(ReadableFiles) : allQueries = Batches(order)

\* The same with at least one worker.
MergedIsEveryReadableBatchOfWorkers ==
    (Returned /\ numWorkers >= 1) =>
        \E order \in Perms(ReadableFiles) : allQueries = Batches(order)

\* C6: under fair scheduling processFiles returns and the report is printed,
\* with every worker and the closer returned and the results channel closed.
C6_RunCompletes ==
    <>[](/\ pc = "done"
         /\ output # << >>
         /\ NoWorkerRunning
         /\ closer = "returned"
         /\ resultsClosed)

\* A run with a file that cannot be read has printed its report.
C6_Witness ==
    /\ pc = "done"
    /\ numWorkers >= 1
    /\ \E f \in 1..Len(files) : ~readable[f]
    /\ \E f \in 1..Len(files) : readable[f]

\* What one worker taking the files in order collects (nothing without a
\* worker).
SequentialQueries ==
    IF numWorkers >= 1
    THEN Batches(SelectSeq(files, LAMBDA f : readable[f]))
    ELSE << >>

ReportOf(queries) ==
    LET d == findDuplicates(queries)
    IN  printResults(d, CHOOSE keys \in Perms(DOMAIN d) : TRUE)

\* C7: the printed report is a function of the files, their contents and the
\* worker count: it is the report of the sequential run, whatever order the
\* batches arrived in.
C7_ReportIndependentOfArrival ==
    pc = "done" => output = ReportOf(SequentialQueries)

\* The batches arrived in another order than the files', and groups of equal
\* size were printed.
C7_Witness ==
    /\ pc = "done"
    /\ allQueries # SequentialQueries
    /\ Len(output) = 3
    /\ LineCount(output[2]) = LineCount(output[3])

\* C10: results is closed once, after every worker has returned; no send on
\* or close of a closed channel happens; the collector stops only when no
\* worker can send any more.
C10_ClosedOnceAfterWorkers ==
    /\ ~panicked
    /\ closes <= 1
    /\ resultsClosed <=> (closes = 1)
    /\ resultsClosed => (started = numWorkers /\ pc # "spawn" /\ NoWorkerRunning)
    /\ Returned => (closes = 1 /\ NoWorkerRunning /\ results = << >>)

\* results was closed after two workers had each sent a batch.
C10_Witness ==
    /\ resultsClosed
    /\ numWorkers = 2
    /\ Len(results) = 2
    /\ results[1] # << >>
    /\ results[1][1].FilePath = 2

(***************************************************************************)
(* A run over one file whose text is one statement, or the statement twice *)
(***************************************************************************)

TokSelect == << "S", "E", "L", "E", "C", "T", " " >>
TokInsert == << "i", "n", "s", "e", "r", "t", " ", "i", "n", "t", "o", " " >>
TokUpdate ==
    << "U", "P", "D", "A", "T", "E", " ", "t", " ", "S", "E", "T", " " >>
TokDelete == << "d", "e", "l", "e", "t", "e", " ", "f", "r", "o", "m", " " >>
TokDrop == << "d", "r", "o", "p", " ", "t", "a", "b", "l", "e", " " >>
TokFrom == << "f", "r", "o", "m" >>

\* The pieces a generated text is made of: five anchors, the word from, an
\* identifier, a number, a space and the terminator.
StmtTokens ==
    { TokSelect, TokInsert, TokUpdate, TokDelete, TokDrop, TokFrom,
      << "x" >>, << "4", "2" >>, << " " >>, << ";" >> }

\* The text is the statement alone, or two copies of it, each followed by
\* term, with sep between them.
Shapes ==
    { [copies |-> 1, term |-> << >>, sep |-> << >>] }
        \cup [copies : {2}, term : { << >>, << ";" >> },
              sep : { << >>, << " " >>, << "\n" >> }]

TextOf(st, sh) ==
    LET s == Flatten(st)
    IN  IF sh.copies = 1 THEN s
        ELSE s \o sh.term \o sh.sep \o s \o sh.term

InitExtract ==
    /\ stmt \in SeqsUpTo(StmtTokens, MaxStmtTokens)
    /\ shape \in Shapes
    /\ files = << 1 >>
    /\ readable = << TRUE >>
    /\ content = << TextOf(stmt, shape) >>
    /\ parsed = << Parse(1, content[1]) >>
    /\ numWorkers = 1
    /\ ProcessStart
    /\ NormIdle

SpecExtract == InitExtract /\ [][Next]_vars

(***************************************************************************)
(* Properties of findSQLQueries and of the pipeline                        *)
(***************************************************************************)

\* The index after the keywords of the n-th alternative at the start of q
\* (0: they are not there).
KeywordsEnd(q, n) == IF n = 1 THEN Kw(q, 1, KwSelect) ELSE AnchorEnd(q, 1, n)

\* The alternative whose keywords q starts with (0: none).
AnchorOf(q) ==
    IF \E n \in 1..8 : KeywordsEnd(q, n) # 0
    THEN CHOOSE n \in 1..8 : KeywordsEnd(q, n) # 0
    ELSE 0

ContainsVerb(q) ==
    \/ Contains(ToUpper(q), KwSelect)
    \/ Contains(ToUpper(q), KwInsert)
    \/ Contains(ToUpper(q), KwUpdate)

\* C9 as stated: a statement without a terminating ";" is returned only when
\* it starts at the SELECT anchor.
C9_UnterminatedOnlySelect ==
    \A i \in 1..Len(allQueries) :
        ~HasSuffixSemi(allQueries[i].Query) => AnchorOf(allQueries[i].Query) = 1

\* C9 amended: every returned statement starts at an anchor, and one without
\* a terminating ";" contains SELECT, INSERT or UPDATE: it starts at the
\* SELECT, INSERT INTO or UPDATE .. SET anchor, or at another anchor with one
\* of the three words in its body.
C9_UnterminatedOnlyWithVerb ==
    \A i \in 1..Len(allQueries) :
        LET q == allQueries[i].Query
        IN  /\ AnchorOf(q) \in 1..8
            /\ ~HasSuffixSemi(q) =>
                   \/ AnchorOf(q) \in {1, 2, 3}
                   \/ AnchorOf(q) \in 4..8 /\ ContainsVerb(q)

\* An unterminated DELETE with SELECT, INSERT or UPDATE in its body was
\* returned.
C9_Witness ==
    /\ Returned
    /\ Len(allQueries) = 1
    /\ ~HasSuffixSemi(allQueries[1].Query)
    /\ AnchorOf(allQueries[1].Query) = 4
    /\ ContainsVerb(allQueries[1].Query)

\* The statement is made of an anchor and more, without ";", and the
\* extractor returns it, trimmed, from a text that holds it alone.
Recognizable(st) ==
    /\ st # << >>
    /\ \A i \in 1..Len(st) : st[i] # << ";" >>
    /\ AnchorOf(Flatten(st)) \in 1..8
    /\ findSQLQueries(Flatten(st)) = << TrimSpace(Flatten(st)) >>

HasDigit(s) == \E i \in 1..Len(s) : IsDigit(s[i])

OneGroupOfTwo ==
    /\ Len(allQueries) = 2
    /\ allQueries[1] = allQueries[2]
    /\ DOMAIN duplicates = { allQueries[1].Normalized }
    /\ duplicates[allQueries[1].Normalized] = allQueries
    /\ ~HasDigit(allQueries[1].Normalized)
    /\ output = << FoundLine(1), CountLine(2, allQueries[1].Normalized) >>

HasBody(s) ==
    \E i \in KeywordsEnd(s, AnchorOf(s))..Len(s) : ~IsSpace(s[i])

EndsWithFrom(s) == HasAtCI(s, Len(s) - 3, KwFrom)

SingleQuoted == { << "'", "b", "'" >>, << "'", "'" >> }
DoubleQuoted == { << "\"", "b", "\"" >>, << "\"", "'", "\"" >> }
Letters == { << "a" >>, << "A" >> }
Blanks == { << " " >>, << "\n" >> }
Numbers == { << "1" >>, << "2" >> }

\* The lexical tokens a raw statement is made of: letters, whitespace,
\* digits, punctuation and quoted string literals.
NormTokens ==
    Letters \cup Blanks \cup Numbers
        \cup { << "=" >>, << "," >>, << "(" >>, << ")" >> }
        \cup SingleQuoted \cup DoubleQuoted

\* The runs of whitespace and the numbers a variation may put in place of a
\* whitespace token and of a digit.
BlankRuns == Blanks \cup { << " ", " " >>, << "\n", " " >> }
DigitRuns == Numbers \cup { << "1", "2" >> }

InitNormalize ==
    /\ rawToks \in SeqsUpTo(NormTokens, MaxNormTokens)
    /\ varToks = rawToks
    /\ kind = "none"
    /\ nphase = "input"
    /\ normRaw = << >>
    /\ normVar = << >>
    /\ normTwice = << >>
    /\ files = << >>
    /\ readable = << >>
    /\ content = << >>
    /\ parsed = << >>
    /\ numWorkers = 0
    /\ ProcessStart
    /\ stmt = << >>
    /\ shape = NoShape

\* The second statement is the first with token i replaced by t.
Vary(i, t, k) ==
    /\ nphase = "input"
    /\ t # rawToks[i]
    /\ varToks' = [rawToks EXCEPT ![i] = t]
    /\ kind' = k
    /\ nphase' = "varied"
    /\ UNCHANGED << rawToks, normRaw, normVar, normTwice, runVars >>

\* A letter in the other case.
VaryCase ==
    \E i \in 1..Len(rawToks) : \E t \in Letters :
        rawToks[i] \in Letters /\ Vary(i, t, "case")

\* Another kind or amount of whitespace between two tokens.
VaryWhitespace ==
    \E i \in 1..Len(rawToks) : \E t \in BlankRuns :
        rawToks[i] \in Blanks /\ Vary(i, t, "whitespace")

\* Another value of a numeric literal.
VaryNumber ==
    \E i \in 1..Len(rawToks) : \E t \in DigitRuns :
        rawToks[i] \in Numbers /\ Vary(i, t, "number")

\* Other contents of a quoted string literal.
VaryQuoted ==
    \E i \in 1..Len(rawToks) :
        \/ \E t \in SingleQuoted : rawToks[i] \in SingleQuoted /\ Vary(i, t, "quoted")
        \/ \E t \in DoubleQuoted : rawToks[i] \in DoubleQuoted /\ Vary(i, t, "quoted")

\* normalizeQuery on both statements, and once more on the first result.
Canonicalize ==
    /\ nphase \in {"input", "varied"}
    /\ normRaw' = normalizeQuery(Flatten(rawToks))
    /\ normVar' = normalizeQuery(Flatten(varToks))
    /\ normTwice' = normalizeQuery(normalizeQuery(Flatten(rawToks)))
    /\ nphase' = "done"
    /\ UNCHANGED << rawToks, varToks, kind, runVars >>

NextNormalize ==
    VaryCase \/ VaryWhitespace \/ VaryNumber \/ VaryQuoted \/ Canonicalize

SpecNormalize == InitNormalize /\ [][NextNormalize]_vars

(***************************************************************************)
(* Properties of normalizeQuery                                            *)
(***************************************************************************)

\* C3: two raw statements that differ only in case, in whitespace, in the
\* value of a numeric literal or in the contents of a quoted string literal
\* have the same normalized string.
C3_VariationsNormalizeAlike ==
    nphase = "done" => normVar = normRaw

\* The same for the three kinds of variation other than quoted contents.
UnquotedVariationsNormalizeAlike ==
    (nphase = "done" /\ kind # "quoted") => normVar = normRaw

\* C8 as stated: normalizeQuery applied to its own output gives that output.
C8_Idempotent ==
    nphase = "done" => normTwice = normRaw

\* C8 amended: a second pass changes nothing but the case of the N and S
\* placeholders; it gives the first output lower-cased.
C8_IdempotentUpToPlaceholderCase ==
    nphase = "done" => normTwice = ToLower(normRaw)

\* A statement with a number, a quoted string and a parenthesis went through
\* both passes.
C8_Witness ==
    /\ nphase = "done"
    /\ Contains(normRaw, << "N" >>)
    /\ Contains(normRaw, << "S" >>)
    /\ Contains(normRaw, << "(" >>)
    /\ normTwice # normRaw

=============================================================================
